---- MODULE Spec2Model ----
(***************************************************************************)
(* A model of music_search_app.py (Streamlit music search application).    *)
(*                                                                         *)
(*   Spec        the cover-override store driven by one session at a time: *)
(*               update_cover_override, reset_cover_override, the cached   *)
(*               load_data result and the GitHub copy of the file.         *)
(*   SpecConc    two sessions running the same handlers step by step       *)
(*               (read file, write file, upload, reload).                  *)
(*   SpecResolve load_data's merge and the album loop's cover choice over  *)
(*               arbitrary override files.                                 *)
(*   SpecSearch  one script run of the search page (search dispatch,       *)
(*               format counts and filter, album loop) and the             *)
(*               autocomplete callback, over small catalogs.               *)
(***************************************************************************)
EXTENDS Integers, Sequences, FiniteSets, TLC

VARIABLES
    localFile,    \* cover_overrides.csv on the app's disk: NoFile or its rows
    remote,       \* cover_overrides.csv in the GitHub repository
    cover_art,    \* df['cover_art'] of the catalog, one value per release
    cache,        \* st.cache_data entry of load_data(): df['cover_art_final']
    lastOp,       \* history: the last handler run, its inputs, and how many ran (n)
    lastUpsert,   \* history: per release, url of the latest upsert not yet reverted
    sess,         \* SpecConc: per session, position in its handler and its local 'overrides'
    file0,        \* SpecConc history: the file before either session started
    shown,        \* SpecResolve: cover_url of the album loop, per release
    df,           \* SpecSearch: the catalog rows
    request,      \* SpecSearch: st.session_state (last_query, search_type) and widget values
    view          \* SpecSearch: what the last script run / callback produced

vars == <<localFile, remote, cover_art, cache, lastOp, lastUpsert, sess, file0,
          shown, df, request, view>>

(***************************************************************************)
(* Bounds                                                                  *)
(***************************************************************************)
NumReleases == 2
MaxFileRows == 2
MaxRows == 3
MaxOps == 3

ReleaseIds == 1..NumReleases

(***************************************************************************)
(* Values                                                                  *)
(***************************************************************************)
NaN == "NaN"          \* pandas missing value (float nan)
None == "None"        \* Python None
\* A CSV file on disk: absent (reading it raises), or its data rows in order.
NoFile == [exists |-> FALSE, rows |-> <<>>]
File(rows) == [exists |-> TRUE, rows |-> rows]
PLACEHOLDER_COVER == "placeholder"

\* What the user can type in "Custom cover art URL:" (the field starts empty).
InputUrls == {"u1", "u2", ""}
\* What fetch_discogs_cover returns: the first image uri, or None.
FallbackUrls == {"f1", None}
\* Upload outcomes: requests.put answers 200/201, answers another status, or raises.
UploadOutcomes == {"ok", "rejected", "raised"}

Row(release_id, cover_url) == [release_id |-> release_id, cover_url |-> cover_url]

(***************************************************************************)
(* CSV conversion                                                          *)
(***************************************************************************)
\* pd.read_csv: an empty field is read as NaN.
ReadField(text) == IF text = "" THEN NaN ELSE text

read_csv(file) ==
    [i \in 1..Len(file.rows) |-> Row(file.rows[i].release_id, ReadField(file.rows[i].cover_url))]

\* DataFrame.to_csv: NaN and None are written as the empty field.
WriteField(v) == IF v \in {NaN, None} THEN "" ELSE v

to_csv(overrides) ==
    File([i \in 1..Len(overrides) |-> Row(overrides[i].release_id, WriteField(overrides[i].cover_url))])

(***************************************************************************)
(* The override table                                                      *)
(***************************************************************************)
FilterOut_KeepsOnlyRelease(overrides, release_id) ==
    SelectSeq(overrides, LAMBDA row : row.release_id = release_id)

\* overrides[overrides['release_id'] != release_id]
FilterOut(overrides, release_id) ==
    SelectSeq(overrides, LAMBDA row : row.release_id # release_id)

\* pd.concat([overrides, pd.DataFrame([{...}])], ignore_index=True)
Concat(overrides, release_id, cover_url) == Append(overrides, Row(release_id, cover_url))

\* Python truthiness of a cell: None and "" are false, nan and other strings true.
Truthy(v) == v \notin {None, ""}

\* update_cover_override, lines 96-103: the table it writes, given the file it read.
UpsertRows(file, release_id, new_url) ==
    LET overrides == IF file = NoFile THEN <<>> ELSE read_csv(file)
    IN  Concat(FilterOut(overrides, release_id), release_id, new_url)

\* reset_cover_override, lines 112-118: the table it writes, given a readable file.
ResetRows(file, release_id, fallback_url) ==
    LET overrides == FilterOut(read_csv(file), release_id)
    IN  IF Truthy(fallback_url) THEN Concat(overrides, release_id, fallback_url)
        ELSE overrides

(***************************************************************************)
(* load_data: the override merge                                           *)
(***************************************************************************)
\* overrides.drop_duplicates(subset='release_id', keep='last')
drop_duplicates_last(overrides) ==
    SelectSeq([i \in 1..Len(overrides) |->
                  [row |-> overrides[i],
                   last |-> \A j \in (i+1)..Len(overrides) :
                               overrides[j].release_id # overrides[i].release_id]],
              LAMBDA e : e.last)

\* df.merge(overrides, on='release_id', how='left'): df['cover_url'] of a release.
MergedCoverUrl(overrides, release_id) ==
    LET d == drop_duplicates_last(overrides)
        hits == {i \in 1..Len(d) : d[i].row.release_id = release_id}
    IN  IF hits = {} THEN NaN ELSE d[CHOOSE i \in hits : TRUE].row.cover_url

\* Series.combine_first: the left value where it is not null, else the right one.
combine_first(left, right) == IF left \in {NaN, None} THEN right ELSE left

\* load_data(): df['cover_art_final'] per release.
load_data(file, base) ==
    IF file = NoFile
    THEN [r \in ReleaseIds |-> base[r]]
    ELSE [r \in ReleaseIds |-> combine_first(MergedCoverUrl(read_csv(file), r), base[r])]

\* cover_url = first.get("cover_art_final") or PLACEHOLDER_COVER
CoverShown(cover_art_final) ==
    IF Truthy(cover_art_final) THEN cover_art_final ELSE PLACEHOLDER_COVER

(***************************************************************************)
(* Catalog base covers                                                     *)
(***************************************************************************)
\* df['cover_art']: read from the CSV (a url or NaN per row), or all None when
\* the column is absent (line 135).
CoverArtColumns ==
    [ReleaseIds -> {"b1", NaN}] \cup {[r \in ReleaseIds |-> None]}

NoOp == [kind |-> "none", release_id |-> 0, arg |-> None, upload |-> "none", n |-> 0]

Idle == [pc |-> "idle", op |-> NoOp, overrides |-> <<>>]

Sessions == {1, 2}

NoView == [kind |-> "none"]

NoRequest == [query |-> <<>>, search_type |-> "All", format |-> "All", sort |-> "A-Z"]

(***************************************************************************)
(* Spec: one session at a time                                             *)
(***************************************************************************)
Init ==
    /\ localFile \in {NoFile, File(<<>>)}
    /\ remote = localFile
    /\ cover_art \in CoverArtColumns
    /\ cache = load_data(localFile, cover_art)
    /\ lastOp = NoOp
    /\ lastUpsert = [r \in ReleaseIds |-> None]
    /\ sess = [s \in Sessions |-> Idle]
    /\ file0 = NoFile
    /\ shown = [r \in ReleaseIds |-> None]
    /\ df = <<>>
    /\ request = NoRequest
    /\ view = NoView

\* update_cover_override(release_id, new_url) up to the script rerun it triggers.
\* The backup copy (lines 84-94) touches only the backups folder.
update_cover_override(release_id, new_url, outcome) ==
    /\ lastOp.n < MaxOps
    /\ localFile' = to_csv(UpsertRows(localFile, release_id, new_url))
    /\ remote' = IF outcome = "ok" THEN localFile' ELSE remote
    \* an exception raised by the upload leaves st.cache_data.clear() unreached
    /\ cache' = IF outcome = "raised" THEN cache ELSE load_data(localFile', cover_art)
    /\ lastOp' = [kind |-> "update", release_id |-> release_id, arg |-> new_url,
                  upload |-> outcome, n |-> lastOp.n + 1]
    /\ lastUpsert' = [lastUpsert EXCEPT ![release_id] = new_url]
    /\ UNCHANGED <<cover_art, sess, file0, shown, df, request, view>>

\* reset_cover_override(release_id) up to the script rerun it triggers.
reset_cover_override(release_id, fallback_url, outcome) ==
    /\ lastOp.n < MaxOps
    /\ IF localFile = NoFile
       THEN \* read_csv raises, "Reset failed" is shown, nothing is written
            /\ UNCHANGED <<localFile, remote, cache, lastUpsert>>
            /\ lastOp' = [kind |-> "reset", release_id |-> release_id, arg |-> fallback_url,
                          upload |-> "none", n |-> lastOp.n + 1]
       ELSE /\ localFile' = to_csv(ResetRows(localFile, release_id, fallback_url))
            /\ remote' = IF outcome = "ok" THEN localFile' ELSE remote
            \* the except clause swallows an upload exception before the cache is cleared
            /\ cache' = IF outcome = "raised" THEN cache ELSE load_data(localFile', cover_art)
            /\ lastUpsert' = [lastUpsert EXCEPT ![release_id] = None]
            /\ lastOp' = [kind |-> "reset", release_id |-> release_id, arg |-> fallback_url,
                          upload |-> outcome, n |-> lastOp.n + 1]
    /\ UNCHANGED <<cover_art, sess, file0, shown, df, request, view>>

Next ==
    \/ \E r \in ReleaseIds, u \in InputUrls, o \in UploadOutcomes : update_cover_override(r, u, o)
    \/ \E r \in ReleaseIds, f \in FallbackUrls, o \in UploadOutcomes : reset_cover_override(r, f, o)

Spec == Init /\ [][Next]_vars

(***************************************************************************)
(* Claims about the override store (Spec)                                  *)
(***************************************************************************)
RowsOf(rows, release_id) == SelectSeq(rows, LAMBDA row : row.release_id = release_id)

RowsNotOf(rows, release_id) == SelectSeq(rows, LAMBDA row : row.release_id # release_id)

AtMostOneEntryPerRelease(file) == \A r \in ReleaseIds : Len(RowsOf(file.rows, r)) <= 1

\* C1: after any sequence of upserts and removes the table holds at most one
\* entry per release_id, and resolving a release against the table returns the
\* url of its most recent upsert (as long as it was not removed since).
C1_LastWriteWins ==
    /\ AtMostOneEntryPerRelease(localFile)
    /\ \A r \in ReleaseIds :
          lastUpsert[r] # None => load_data(localFile, cover_art)[r] = lastUpsert[r]

\* C3 as stated: a remove leaves no entry for release_id, leaves every other
\* entry as it was, and leaves the whole table unchanged when there was no entry.
C3_RemoveOnlyDeletes ==
    [][lastOp'.kind = "reset" =>
          LET r == lastOp'.release_id
          IN  /\ RowsOf(localFile'.rows, r) = <<>>
              /\ RowsNotOf(localFile'.rows, r) = RowsNotOf(localFile.rows, r)
              /\ (RowsOf(localFile.rows, r) = <<>> => localFile' = localFile)]_vars

\* C3 amended: a remove deletes every entry for release_id and leaves every
\* other entry as it was, in order; when the Discogs lookup returns a cover it
\* then appends the single entry (release_id, that cover) as the last row, and
\* otherwise the table has no entry for release_id; when the override file
\* cannot be read the remove raises nothing and writes nothing.
C3_RemoveThenFallback ==
    [][lastOp'.kind = "reset" =>
          LET r == lastOp'.release_id
              f == lastOp'.arg
          IN  IF ~localFile.exists
              THEN localFile' = localFile
              ELSE /\ localFile'.exists
                   /\ RowsNotOf(localFile'.rows, r) = RowsNotOf(localFile.rows, r)
                   /\ IF f = None
                      THEN RowsOf(localFile'.rows, r) = <<>>
                      ELSE /\ RowsOf(localFile'.rows, r) = <<Row(r, f)>>
                           /\ localFile'.rows[Len(localFile'.rows)] = Row(r, f)]_vars

\* A remove has run on a table holding another release's entry, and the
\* Discogs lookup returned a cover.
C3_Witness ==
    /\ lastOp.kind = "reset"
    /\ lastOp.arg = "f1"
    /\ localFile.exists
    /\ RowsNotOf(localFile.rows, lastOp.release_id) # <<>>
    /\ RowsOf(localFile.rows, lastOp.release_id) # <<>>

\* C4: after an upsert or remove whose upload failed, the cached load_data
\* result, the local file and the GitHub copy still agree.
C4_FailedUploadKeepsAgreement ==
    lastOp.upload \in {"rejected", "raised"} =>
        /\ remote = localFile
        /\ cache = load_data(localFile, cover_art)

(***************************************************************************)
(* SpecConc: two sessions, each running one handler.  Streamlit runs every *)
(* session's script in its own thread; the handlers take no lock, so their *)
(* file reads, file writes, uploads and reloads interleave.                *)
(***************************************************************************)
\* Override files with at most one row, as one earlier handler run leaves them.
SmallFiles ==
    {NoFile, File(<<>>)} \cup
    {File(<<Row(r, u)>>) : r \in ReleaseIds, u \in {"u1", "f1"}}

InitConc ==
    /\ localFile \in SmallFiles
    /\ remote = localFile
    /\ cover_art = [r \in ReleaseIds |-> NaN]
    /\ cache = load_data(localFile, cover_art)
    /\ lastOp = NoOp
    /\ lastUpsert = [r \in ReleaseIds |-> None]
    /\ sess = [s \in Sessions |-> Idle]
    /\ file0 = localFile
    /\ shown = [r \in ReleaseIds |-> None]
    /\ df = <<>>
    /\ request = NoRequest
    /\ view = NoView

ConcUnchanged == UNCHANGED <<cover_art, lastOp, lastUpsert, file0, shown, df, request, view>>

\* update_cover_override lines 96-103: read the file, build the new table in memory.
ReadForUpdate(s, release_id, new_url) ==
    /\ sess[s].pc = "idle"
    /\ sess' = [sess EXCEPT ![s] =
                  [pc |-> "write",
                   op |-> [kind |-> "update", release_id |-> release_id, arg |-> new_url,
                           upload |-> "none", n |-> 1],
                   overrides |-> UpsertRows(localFile, release_id, new_url)]]
    /\ ConcUnchanged
    /\ UNCHANGED <<localFile, remote, cache>>

\* reset_cover_override lines 112-118: read the file (a missing file ends the
\* handler in its except clause), fetch the fallback, build the new table.
ReadForReset(s, release_id, fallback_url) ==
    /\ sess[s].pc = "idle"
    /\ sess' = [sess EXCEPT ![s] =
                  [pc |-> IF localFile.exists THEN "write" ELSE "done",
                   op |-> [kind |-> "reset", release_id |-> release_id, arg |-> fallback_url,
                           upload |-> "none", n |-> 1],
                   overrides |-> IF localFile.exists
                                 THEN ResetRows(localFile, release_id, fallback_url)
                                 ELSE <<>>]]
    /\ ConcUnchanged
    /\ UNCHANGED <<localFile, remote, cache>>

\* overrides.to_csv(COVER_OVERRIDES_FILE, ...), lines 104 and 120
WriteFile(s) ==
    /\ sess[s].pc = "write"
    /\ localFile' = to_csv(sess[s].overrides)
    /\ sess' = [sess EXCEPT ![s].pc = "upload"]
    /\ ConcUnchanged
    /\ UNCHANGED <<remote, cache>>

\* upload_to_github: reads the file as it is now and PUTs it.
Upload(s, outcome) ==
    /\ sess[s].pc = "upload"
    /\ remote' = IF outcome = "ok" THEN localFile ELSE remote
    /\ sess' = [sess EXCEPT ![s].pc = IF outcome = "raised" THEN "done" ELSE "reload",
                            ![s].op.upload = outcome]
    /\ ConcUnchanged
    /\ UNCHANGED <<localFile, cache>>

\* st.cache_data.clear(); st.rerun(): the rerun calls load_data() again.
Reload(s) ==
    /\ sess[s].pc = "reload"
    /\ cache' = load_data(localFile, cover_art)
    /\ sess' = [sess EXCEPT ![s].pc = "done"]
    /\ ConcUnchanged
    /\ UNCHANGED <<localFile, remote>>

NextConc ==
    \/ \E s \in Sessions, r \in ReleaseIds, u \in InputUrls : ReadForUpdate(s, r, u)
    \/ \E s \in Sessions, r \in ReleaseIds, f \in FallbackUrls : ReadForReset(s, r, f)
    \/ \E s \in Sessions : WriteFile(s)
    \/ \E s \in Sessions, o \in UploadOutcomes : Upload(s, o)
    \/ \E s \in Sessions : Reload(s)

SpecConc == InitConc /\ [][NextConc]_vars

\* The file one handler leaves when it runs alone on 'file'.
RunAlone(file, op) ==
    IF op.kind = "update" THEN to_csv(UpsertRows(file, op.release_id, op.arg))
    ELSE IF file.exists THEN to_csv(ResetRows(file, op.release_id, op.arg))
    ELSE file

\* C2: once two concurrent writers have both finished, the table is what the
\* two operations leave when run one after the other, in one of the two orders.
C2_Serializable ==
    (\A s \in Sessions : sess[s].pc = "done") =>
        localFile \in {RunAlone(RunAlone(file0, sess[1].op), sess[2].op),
                       RunAlone(RunAlone(file0, sess[2].op), sess[1].op)}

(***************************************************************************)
(* SpecResolve: one script run over an arbitrary override file: load_data  *)
(* (line 174) and the cover chosen by the album loop (line 371).           *)
(***************************************************************************)
\* Rows as they stand in the file: a release_id and the url text, possibly empty.
FileRows == {Row(r, u) : r \in ReleaseIds, u \in InputUrls}

SeqsUpTo(S, n) == UNION {[1..k -> S] : k \in 0..n}

AnyFiles == {NoFile} \cup {File(rows) : rows \in SeqsUpTo(FileRows, MaxFileRows)}

Unloaded == [r \in ReleaseIds |-> "unloaded"]

InitResolve ==
    /\ localFile \in AnyFiles
    /\ remote = localFile
    /\ cover_art \in CoverArtColumns
    /\ cache = Unloaded
    /\ lastOp = NoOp
    /\ lastUpsert = [r \in ReleaseIds |-> None]
    /\ sess = [s \in Sessions |-> Idle]
    /\ file0 = localFile
    /\ shown = [r \in ReleaseIds |-> None]
    /\ df = <<>>
    /\ request = NoRequest
    /\ view = NoView

\* df = load_data() (cached after the first call), then the album loop's
\* cover_url for every release.
ShowCovers ==
    /\ cache' = IF cache = Unloaded THEN load_data(localFile, cover_art) ELSE cache
    /\ shown' = [r \in ReleaseIds |-> CoverShown(cache'[r])]
    /\ UNCHANGED <<localFile, remote, cover_art, lastOp, lastUpsert, sess, file0, df, request, view>>

NextResolve == ShowCovers

SpecResolve == InitResolve /\ [][NextResolve]_vars

\* C5: the cover shown for a release is the override url of the most recently
\* appended row for it when the store has one; otherwise the base cover when
\* that is non-empty; otherwise nothing, shown as the placeholder.
C5_OverrideThenBaseThenNone ==
    cache # Unloaded =>
        \A r \in ReleaseIds :
            LET mine == RowsOf(localFile.rows, r)
                resolved == IF mine # <<>> THEN mine[Len(mine)].cover_url
                            ELSE IF cover_art[r] \in {NaN, None} THEN "" ELSE cover_art[r]
            IN  shown[r] = IF resolved = "" THEN PLACEHOLDER_COVER ELSE resolved

(***************************************************************************)
(* Text: strings are tuples of one-character strings.                      *)
(***************************************************************************)
\* A missing text cell (pandas NaN) and a missing release_id, kept apart from
\* every string and every id.
NaNText == <<"NaN">>
NaNId == 0

Max(a, b) == IF a >= b THEN a ELSE b
Min(a, b) == IF a <= b THEN a ELSE b

\* str.lower(), on the characters the catalogs below use
Lower(c) ==
    CASE c = "A" -> "a" [] c = "B" -> "b" [] c = "C" -> "c"
      [] c = "D" -> "d" [] c = "S" -> "s" [] c = "V" -> "v" [] OTHER -> c

LowerStr(text) == [i \in 1..Len(text) |-> Lower(text[i])]

\* unicodedata.normalize('NFKD', c).encode('ascii', 'ignore'): an accented
\* letter keeps its base letter, any other non-ASCII character disappears.
AsciiChars ==
    {"a", "b", "c", "d", "e", "g", "i", "l", "m", "n", "o", "p", "r", "s", "t", "u", "v",
     "A", "B", "C", "D", "S", "V", " ", ".", ",", "_"}

ToAscii(c) ==
    IF c \in AsciiChars THEN <<c>>
    ELSE IF c = "é" THEN <<"e">>
    ELSE <<>>

\* \s and \w of the regular expression [^\w\s]
IsSpace(c) == c = " "
IsWord(c) == c \in AsciiChars \ {" ", ".", ","}

RECURSIVE Flatten(_)
Flatten(parts) == IF parts = <<>> THEN <<>> ELSE Head(parts) \o Flatten(Tail(parts))

RECURSIVE LStrip(_)
LStrip(text) ==
    IF text # <<>> /\ IsSpace(Head(text)) THEN LStrip(Tail(text)) ELSE text

RECURSIVE RStrip(_)
RStrip(text) ==
    IF text # <<>> /\ IsSpace(text[Len(text)])
    THEN RStrip(SubSeq(text, 1, Len(text) - 1))
    ELSE text

\* normalize(text), the definition in force when the page runs (lines 180-186)
normalize(text) ==
    IF text = NaNText THEN <<>>
    ELSE LET lowered == LowerStr(text)
             ascii == Flatten([i \in 1..Len(lowered) |-> ToAscii(lowered[i])])
             kept == SelectSeq(ascii, LAMBDA c : IsWord(c) \/ IsSpace(c))
         IN  RStrip(LStrip(kept))

\* str.startswith
StartsWith(text, prefix) ==
    Len(prefix) <= Len(text) /\ SubSeq(text, 1, Len(prefix)) = prefix

\* substring test
Contains(text, pat) ==
    \E i \in 0..(Len(text) - Len(pat)) : SubSeq(text, i + 1, i + Len(pat)) = pat

\* Series.str.contains(pat) with pat read as a regular expression: of the
\* characters used here only "." is special and matches any character.
RegexContains(text, pat) ==
    \E i \in 0..(Len(text) - Len(pat)) :
        \A k \in 1..Len(pat) : pat[k] = "." \/ text[i + k] = pat[k]

(***************************************************************************)
(* rapidfuzz.fuzz.partial_ratio, as an exact fraction num/den of 100       *)
(***************************************************************************)
Frac(num, den) == [num |-> num, den |-> den]
FracGt(a, b) == a.num * b.den > b.num * a.den
FracGe(a, b) == a.num * b.den >= b.num * a.den
FracEq(a, b) == a.num * b.den = b.num * a.den

RECURSIVE LcsLen(_, _)
LcsLen(s, t) ==
    IF s = <<>> \/ t = <<>> THEN 0
    ELSE IF Head(s) = Head(t) THEN 1 + LcsLen(Tail(s), Tail(t))
    ELSE Max(LcsLen(Tail(s), t), LcsLen(s, Tail(t)))

\* fuzz.ratio: the normalized Indel similarity, 100 * 2 * lcs / (len1 + len2)
ratio(s, t) ==
    IF Len(s) + Len(t) = 0 THEN Frac(100, 1)
    ELSE Frac(200 * LcsLen(s, t), Len(s) + Len(t))

\* the windows of the longer string that the shorter one is aligned with:
\* its short prefixes, every window of the shorter one's length, its suffixes
Windows(len1, longer) ==
    LET len2 == Len(longer)
    IN  {SubSeq(longer, 1, i) : i \in 1..(len1 - 1)}
        \cup {SubSeq(longer, i + 1, i + len1) : i \in 0..(len2 - len1 - 1)}
        \cup {SubSeq(longer, i + 1, len2) : i \in (len2 - len1)..(len2 - 1)}

partial_ratio_impl(shorter, longer) ==
    LET scores == {ratio(shorter, w) : w \in Windows(Len(shorter), longer)}
    IN  CHOOSE best \in scores : \A other \in scores : FracGe(best, other)

partial_ratio(s1, s2) ==
    IF s1 = <<>> /\ s2 = <<>> THEN Frac(100, 1)
    ELSE IF s1 = <<>> \/ s2 = <<>> THEN Frac(0, 1)
    ELSE LET shorter == IF Len(s1) <= Len(s2) THEN s1 ELSE s2
             longer == IF Len(s1) <= Len(s2) THEN s2 ELSE s1
             res == partial_ratio_impl(shorter, longer)
         IN  IF Len(s1) = Len(s2) /\ ~FracEq(res, Frac(100, 1))
             THEN LET res2 == partial_ratio_impl(longer, shorter)
                  IN  IF FracGt(res2, res) THEN res2 ELSE res
             ELSE res

FuzzyThreshold == 85

\* fuzzy_match(text, query, threshold=85)
fuzzy_match(text, query) ==
    FracGe(partial_ratio(normalize(text), normalize(query)), Frac(FuzzyThreshold, 1))

(***************************************************************************)
(* SpecSearch: the catalog                                                 *)
(***************************************************************************)
\* Field values of the catalogs and the regular expressions' words
AL == <<"A", "l">>
AL_SP == <<"a", "l", " ">>
BO == <<"B", "o">>
AB == <<"A", "b">>
BA == <<"B", "a">>
T_A == <<"a">>
T_LA == <<"l", "a">>
T_ALBATROS == <<"a", "l", "b", "a", "t", "r", "o", "s">>
F_ALBUM == <<"A", "l", "b", "u", "m">>
F_COMP == <<"C", "D", ",", " ", "C", "o", "m", "p">>
F_SINGLE == <<"S", "i", "n", "g", "l", "e">>
F_VIDEO == <<"V", "i", "d", "e", "o">>
P_ALBUM == <<"a", "l", "b", "u", "m">>
P_COMPILATION == <<"c", "o", "m", "p", "i", "l", "a", "t", "i", "o", "n">>
P_COMP == <<"c", "o", "m", "p">>
P_SINGLE == <<"s", "i", "n", "g", "l", "e">>
P_VIDEO == <<"v", "i", "d", "e", "o">>

TrackRow(release_id, artist, title, track, format) ==
    [release_id |-> release_id, Artist |-> artist, Title |-> title,
     TrackTitle |-> track, Format |-> format]

\* Rows a catalog is drawn from.  Release 1 carries one artist spelled two
\* ways and a guest artist, under two formats of the album class; release 2
\* is a single; one row has no release_id.  The catalogs have no 'Released'
\* column, so sort_date is "0000-00-00" throughout (line 307).
CatalogRows ==
    { TrackRow(1, AL, AB, T_A, F_ALBUM),
      TrackRow(1, AL_SP, AB, T_ALBATROS, F_ALBUM),
      TrackRow(1, BO, AB, T_LA, F_COMP),
      TrackRow(2, BO, BA, T_A, F_SINGLE),
      TrackRow(2, BO, BA, T_ALBATROS, F_SINGLE),
      TrackRow(NaNId, AL, AB, T_ALBATROS, F_VIDEO) }

Catalogs == SeqsUpTo(CatalogRows, MaxRows)

\* What can arrive as the search query or the autocomplete prefix: nothing,
\* only whitespace, only punctuation, and ordinary text.
Queries == {<<>>, <<" ">>, <<".">>, AL, T_A}

SearchTypes == {"All", "Song Title", "Artist", "Album"}
FormatOptions == {"All", "Album", "Single", "Video"}
SortOptions == {"A-Z", "Z-A", "Oldest", "Newest"}

\* df[col].fillna("")
FillNa(v) == IF v = NaNText THEN <<>> ELSE v

(***************************************************************************)
(* Search dispatch, lines 234-262                                          *)
(***************************************************************************)
SearchResults(rows, search_type, search_query) ==
    IF search_type = "All"
    THEN SelectSeq(rows, LAMBDA row :
             \/ fuzzy_match(FillNa(row.TrackTitle), search_query)
             \/ fuzzy_match(FillNa(row.Artist), search_query)
             \/ fuzzy_match(FillNa(row.Title), search_query))
    ELSE IF search_type = "Artist"
    THEN LET exact_matches == SelectSeq(rows, LAMBDA row :
                 LowerStr(FillNa(row.Artist)) = LowerStr(search_query))
             partial_matches == SelectSeq(rows, LAMBDA row :
                 RegexContains(LowerStr(FillNa(row.Artist)), LowerStr(search_query)))
         IN  IF exact_matches # <<>> THEN exact_matches
             ELSE IF partial_matches # <<>> THEN partial_matches
             ELSE SelectSeq(rows, LAMBDA row : fuzzy_match(FillNa(row.Artist), search_query))
    ELSE IF search_type = "Song Title"
    THEN SelectSeq(rows, LAMBDA row : fuzzy_match(FillNa(row.TrackTitle), search_query))
    ELSE SelectSeq(rows, LAMBDA row : fuzzy_match(FillNa(row.Title), search_query))

(***************************************************************************)
(* Format counts and format filter, lines 264-281                          *)
(***************************************************************************)
FormatPatterns(option) ==
    CASE option = "Album" -> {P_ALBUM, P_COMPILATION, P_COMP}
      [] option = "Single" -> {P_SINGLE}
      [] option = "Video" -> {P_VIDEO}

\* Series.str.contains(pattern, case=False, na=False)
ContainsNoCase(format, option) ==
    format # NaNText /\ \E pat \in FormatPatterns(option) : Contains(LowerStr(format), pat)

\* results[['release_id', 'Format']].drop_duplicates()
unique_releases(results) ==
    {<<results[i].release_id, results[i].Format>> : i \in 1..Len(results)}

format_counts(results) ==
    [option \in FormatOptions |->
        IF option = "All" THEN Len(results)
        ELSE Cardinality({u \in unique_releases(results) : ContainsNoCase(u[2], option)})]

\* results[results["Format"].fillna("").str.lower().str.contains(pattern, na=False)]
FormatFilter(results, format_clean) ==
    IF format_clean = "All" THEN results
    ELSE SelectSeq(results, LAMBDA row :
             \E pat \in FormatPatterns(format_clean) : Contains(LowerStr(FillNa(row.Format)), pat))

(***************************************************************************)
(* Grouping and sorting, lines 309-322                                     *)
(***************************************************************************)
\* results.drop_duplicates("release_id", keep="first")
album_representatives(results) ==
    SelectSeq([i \in 1..Len(results) |->
                  [row |-> results[i],
                   first |-> \A j \in 1..(i - 1) :
                                results[j].release_id # results[i].release_id]],
              LAMBDA e : e.first)

\* code point of a character, for Python's string order
CodePoint(c) ==
    CASE c = " " -> 32 [] c = "," -> 44 [] c = "." -> 46
      [] c = "A" -> 65 [] c = "B" -> 66 [] c = "C" -> 67 [] c = "D" -> 68 [] c = "S" -> 83 [] c = "V" -> 86
      [] c = "_" -> 95 [] c = "a" -> 97 [] c = "b" -> 98 [] c = "c" -> 99 [] c = "d" -> 100
      [] c = "e" -> 101 [] c = "g" -> 103 [] c = "i" -> 105 [] c = "l" -> 108
      [] c = "m" -> 109 [] c = "n" -> 110 [] c = "o" -> 111 [] c = "p" -> 112
      [] c = "r" -> 114 [] c = "s" -> 115 [] c = "t" -> 116 [] c = "u" -> 117 [] c = "v" -> 118
      [] OTHER -> 233

RECURSIVE StrLess(_, _)
StrLess(s, t) ==
    IF t = <<>> THEN FALSE
    ELSE IF s = <<>> THEN TRUE
    ELSE IF Head(s) = Head(t) THEN StrLess(Tail(s), Tail(t))
    ELSE CodePoint(Head(s)) < CodePoint(Head(t))

\* DataFrame.sort_values(by=..., ascending=...)["release_id"]: missing keys
\* last, equal keys in their original order.
sort_values(reps, keys, ascending) ==
    LET n == Len(reps)
        Before(i, j) ==
            IF keys[i] = NaNText \/ keys[j] = NaNText
            THEN (keys[i] # NaNText /\ keys[j] = NaNText) \/ (keys[i] = keys[j] /\ i < j)
            ELSE IF keys[i] = keys[j] THEN i < j
            ELSE IF ascending THEN StrLess(keys[i], keys[j])
            ELSE StrLess(keys[j], keys[i])
        Position(i) == 1 + Cardinality({j \in 1..n : Before(j, i)})
    IN  [p \in 1..n |-> reps[CHOOSE i \in 1..n : Position(i) = p].row.release_id]

SORT_DATE_DEFAULT == <<"0", "0", "0", "0">>

sorted_ids(results, sort_choice) ==
    LET reps == album_representatives(results)
        titles == [i \in 1..Len(reps) |-> reps[i].row.Title]
        dates == [i \in 1..Len(reps) |-> SORT_DATE_DEFAULT]
    IN  CASE sort_choice = "A-Z" -> sort_values(reps, titles, TRUE)
          [] sort_choice = "Z-A" -> sort_values(reps, titles, FALSE)
          [] sort_choice = "Oldest" -> sort_values(reps, dates, TRUE)
          [] sort_choice = "Newest" -> sort_values(reps, dates, FALSE)

(***************************************************************************)
(* The album loop, lines 368-373                                           *)
(***************************************************************************)
VARIOUS_ARTISTS == <<"V", "a", "r", "i", "o", "u", "s", " ", "A", "r", "t", "i", "s", "t", "s">>

\* results[results["release_id"] == release_id]: NaN equals nothing
GroupOf(results, release_id) ==
    IF release_id = NaNId THEN <<>>
    ELSE SelectSeq(results, LAMBDA row : row.release_id = release_id)

\* group["Artist"].nunique(): distinct raw values, missing ones not counted
nunique(values) == Cardinality({values[i] : i \in 1..Len(values)} \ {NaNText})

\* "Various Artists" if group["Artist"].nunique() > 1 else group["Artist"].iloc[0]
display_artist(group) ==
    LET artists == [i \in 1..Len(group) |-> group[i].Artist]
    IN  IF nunique(artists) > 1 THEN VARIOUS_ARTISTS ELSE artists[1]

AlbumView(results, release_id) ==
    LET group == GroupOf(results, release_id)
    IN  [release_id |-> release_id,
         artists |-> [i \in 1..Len(group) |-> group[i].Artist],
         artist |-> display_artist(group),
         title |-> group[1].Title]

\* The loop stops at the first release_id whose group is empty: group.iloc[0]
\* raises IndexError there, and Streamlit shows the traceback.
RECURSIVE AlbumLoop(_, _)
AlbumLoop(results, ids) ==
    IF ids = <<>> THEN [groups |-> <<>>, error |-> "none"]
    ELSE IF GroupOf(results, Head(ids)) = <<>>
    THEN [groups |-> <<>>, error |-> "IndexError"]
    ELSE LET rest == AlbumLoop(results, Tail(ids))
         IN  [groups |-> <<AlbumView(results, Head(ids))>> \o rest.groups,
              error |-> rest.error]

(***************************************************************************)
(* get_autocomplete_suggestions, lines 188-222                             *)
(***************************************************************************)
MaxSuggestions == 20
EXACT_SCORE == 100
PREFIX_SCORE == 95
MaxLengthBonus == 30

\* set(df['Track Title'].dropna() + df['Artist'].dropna() + df['Title'].dropna())
all_values(rows) ==
    ({rows[i].TrackTitle : i \in 1..Len(rows)} \cup {rows[i].Artist : i \in 1..Len(rows)}
        \cup {rows[i].Title : i \in 1..Len(rows)}) \ {NaNText}

\* The score of one normalized value against the normalized prefix, as a
\* fraction; kept |-> FALSE where the loop skips the value (line 213).
Score(prefix_norm, norm_val) ==
    LET similarity == partial_ratio(prefix_norm, norm_val)
        bonus == Min(Len(norm_val), MaxLengthBonus)
    IN  IF norm_val = prefix_norm
        THEN [kept |-> TRUE, score |-> Frac(EXACT_SCORE + bonus, 1)]
        ELSE IF StartsWith(norm_val, prefix_norm)
        THEN [kept |-> TRUE, score |-> Frac(PREFIX_SCORE + bonus, 1)]
        ELSE IF FracGe(similarity, Frac(FuzzyThreshold, 1))
        THEN [kept |-> TRUE,
              score |-> Frac(similarity.num + bonus * similarity.den, similarity.den)]
        ELSE [kept |-> FALSE, score |-> Frac(0, 1)]

\* suggestions: original value -> score, for the values that are kept
Suggestions(rows, prefix_norm) ==
    LET originals == {v \in all_values(rows) :
                         normalize(v) # <<>> /\ Score(prefix_norm, normalize(v)).kept}
    IN  [v \in originals |-> Score(prefix_norm, normalize(v)).score]

\* sorted(suggestions.items(), key=lambda x: -x[1]): every order by falling
\* score; values of equal score come in the iteration order of a set of
\* strings, which is arbitrary.
RECURSIVE SortedOrders(_, _)
SortedOrders(remaining, suggestions) ==
    IF remaining = {} THEN {<<>>}
    ELSE LET top == {v \in remaining :
                        \A w \in remaining : FracGe(suggestions[v], suggestions[w])}
         IN  UNION {{<<v>> \o rest : rest \in SortedOrders(remaining \ {v}, suggestions)} :
                       v \in top}

get_autocomplete_suggestions(rows, prefix) ==
    LET prefix_norm == normalize(prefix)
        suggestions == Suggestions(rows, prefix_norm)
    IN  IF prefix_norm = <<>> THEN {<<>>}
        ELSE {SubSeq(order, 1, Min(Len(order), MaxSuggestions)) :
                 order \in SortedOrders(DOMAIN suggestions, suggestions)}

(***************************************************************************)
(* SpecSearch: one catalog, script runs and autocomplete calls             *)
(***************************************************************************)
InitSearch ==
    /\ localFile = NoFile
    /\ remote = NoFile
    /\ cover_art = [r \in ReleaseIds |-> None]
    /\ cache = Unloaded
    /\ lastOp = NoOp
    /\ lastUpsert = [r \in ReleaseIds |-> None]
    /\ sess = [s \in Sessions |-> Idle]
    /\ file0 = NoFile
    /\ shown = [r \in ReleaseIds |-> None]
    /\ df \in Catalogs
    /\ request \in [query : Queries, search_type : SearchTypes,
                    format : FormatOptions, sort : SortOptions]
    /\ view = NoView

SearchUnchanged ==
    UNCHANGED <<localFile, remote, cover_art, cache, lastOp, lastUpsert, sess, file0, shown,
                df, request>>

\* One run of the page script from "if search_query:" (line 234) to the end
\* of the album loop, with the query, search type, format and sort order the
\* session holds.  Line 322 only reorders the rows by group, so the loop's
\* groups are read from the filtered rows directly.
RunScript ==
    /\ view' =
         IF request.query = <<>>
         THEN [kind |-> "caption", matched |-> 0,
               counts |-> [option \in FormatOptions |-> 0],
               groups |-> <<>>, error |-> "none"]
         ELSE LET matched == SearchResults(df, request.search_type, request.query)
                  results == FormatFilter(matched, request.format)
                  loop == IF results = <<>>
                          THEN [groups |-> <<>>, error |-> "none"]
                          ELSE AlbumLoop(results, sorted_ids(results, request.sort))
              IN  [kind |-> "search", matched |-> Len(matched),
                   counts |-> format_counts(matched),
                   groups |-> loop.groups, error |-> loop.error]
    /\ SearchUnchanged

\* The searchbox calls get_autocomplete_suggestions with the text typed.
Autocomplete ==
    /\ \E list \in get_autocomplete_suggestions(df, request.query) :
          view' = [kind |-> "suggest", list |-> list]
    /\ SearchUnchanged

NextSearch ==
    \/ RunScript
    \/ Autocomplete

SpecSearch == InitSearch /\ [][NextSearch]_vars

(***************************************************************************)
(* Claims about the search page (SpecSearch)                               *)
(***************************************************************************)
\* The query is ordinary text: it does not normalize to the empty string.
OrdinaryQuery == normalize(request.query) # <<>>

\* C6: rows without a release_id never make a search fail: for an ordinary
\* query the album loop completes without an error, and every displayed group
\* is keyed by a release_id that is not null and holds at least one row.
C6_NullReleaseIdsAreSkipped ==
    (view.kind = "search" /\ OrdinaryQuery) =>
        /\ view.error = "none"
        /\ \A i \in 1..Len(view.groups) :
              view.groups[i].release_id # NaNId /\ view.groups[i].artists # <<>>

\* C7: for an ordinary query whose page renders, the count shown next to the
\* selected format option equals the number of album groups displayed under
\* that option.
C7_CountsMatchDisplayedGroups ==
    (view.kind = "search" /\ OrdinaryQuery /\ view.error = "none") =>
        view.counts[request.format] = Len(view.groups)

\* C8: for an ordinary query, a group's displayed artist is the first row's
\* raw artist when all its rows have the same normalized artist, and
\* "Various Artists" otherwise.
C8_DisplayArtistByNormalizedValue ==
    (view.kind = "search" /\ OrdinaryQuery) =>
        \A i \in 1..Len(view.groups) :
            LET artists == view.groups[i].artists
                same == \A j, k \in 1..Len(artists) :
                            normalize(artists[j]) = normalize(artists[k])
            IN  view.groups[i].artist = IF same THEN artists[1] ELSE VARIOUS_ARTISTS

Tier(value, prefix) ==
    IF normalize(value) = normalize(prefix) THEN 3
    ELSE IF StartsWith(normalize(value), normalize(prefix)) THEN 2
    ELSE 1

\* C10: in the suggestion list no value of a lower similarity tier is ranked
\* above a value of a higher tier, whatever their lengths.
C10_BonusNeverReordersTiers ==
    view.kind = "suggest" =>
        \A i, j \in 1..Len(view.list) :
            i < j => Tier(view.list[i], request.query) >= Tier(view.list[j], request.query)

====
